---- MODULE Spec2Model ----
(***************************************************************************)
(* A model of the type-directed JSON decoder of src/src/json.ts: the value *)
(* model (JsonValue), toJsonValue, object schemas (JsonSchema.objectSchema)*)
(* , the matching engine loadAs and the entry point parseAs.               *)
(*                                                                         *)
(* Encodings.  A JavaScript value is the record                            *)
(*   [kind, value, keys, items]                                            *)
(* kind is its typeof ("boolean", "number", "string"), "null", "array",    *)
(* "object", "function", or the class name of an instance an onRes         *)
(* callback built; value is String(x) of a scalar; keys/items are the      *)
(* own enumerable keys, in enumeration order, and the values under them    *)
(* (items alone for an array).                                             *)
(* A JsonValue is [ty, value, keys, arr]: ty and value are the fields of   *)
(* the class, keys/arr the JsonObject's Map in insertion order (arr alone  *)
(* for a JsonArray).                                                       *)
(* A specifier (PTy) is [id, args]: a bare constructor or symbol has no    *)
(* args, the array literal [C, T] is [id |-> C, args |-> <<T>>].           *)
(* A call's outcome is [tag, val, err]: tag "Right" (Either.pure), "Left"  *)
(* (Either.fail) or "Throw" (a raised exception); err is [name, message].  *)
(***************************************************************************)
EXTENDS Integers, Sequences, FiniteSets, TLC

VARIABLES text, cls, schemas, jv, result, outcome, pc, call, heap, lastOp

vars == <<text, cls, schemas, jv, result, outcome, pc, call, heap, lastOp>>

\* ------------------------------------------------------------------ bounds

\* Most nodes (scalars, arrays, objects) of the value tree of an input.
MaxNodes == 3

\* ------------------------------------------------------------- JavaScript

JsValue(kind, value, keys, items) ==
  [kind |-> kind, value |-> value, keys |-> keys, items |-> items]

JsScalar(kind, value) == JsValue(kind, value, <<>>, <<>>)

JsArrayOf(items) == JsValue("array", "", <<>>, items)

JsObjectOf(keys, items) == JsValue("object", "", keys, items)

undefined == JsScalar("undefined", "undefined")

\* Array.prototype.join
RECURSIVE join(_, _)
join(strs, sep) ==
  IF strs = <<>> THEN ""
  ELSE IF Len(strs) = 1 THEN strs[1]
  ELSE strs[1] \o sep \o join(Tail(strs), sep)

\* Set.prototype.add on a Set kept as its values in insertion order
SetAdd(set, k) ==
  IF \E i \in 1..Len(set) : set[i] = k THEN set ELSE Append(set, k)

\* Set.prototype.delete
SetDelete(set, k) == SelectSeq(set, LAMBDA e : e /= k)

\* ------------------------------------------------------------- JsonValue

JsonValue(value, ty, keys, arr) ==
  [ty |-> ty, value |-> value, keys |-> keys, arr |-> arr]

JsonArray(arr) == JsonValue("", "ARRAY", <<>>, arr)

JsonBoolean(x) == JsonValue(x, "BOOLEAN", <<>>, <<>>)

JsonNull == JsonValue("null", "NULL", <<>>, <<>>)

JsonNumber(x) == JsonValue(x, "NUMBER", <<>>, <<>>)

\* new JsonObject() followed by set(keys[i], arr[i]) for i = 1, 2, ...
JsonObject(keys, arr) == JsonValue("", "OBJECT", keys, arr)

JsonString(x) == JsonValue(x, "STRING", <<>>, <<>>)

\* JsonArray.set(i, v) with i = arr.length: the only use, in toJsonValue
JsonArraySet(a, v) == JsonArray(Append(a.arr, v))

\* JsonObject.set(k, v): Map.set keeps the place of a key already present
JsonObjectSet(o, k, v) ==
  IF \E i \in 1..Len(o.keys) : o.keys[i] = k
    THEN JsonObject(o.keys,
           [i \in 1..Len(o.arr) |-> IF o.keys[i] = k THEN v ELSE o.arr[i]])
    ELSE JsonObject(Append(o.keys, k), Append(o.arr, v))

\* JsonValue._unwrap() of a scalar: the wrapped JavaScript value
unwrapScalar(v) ==
  JsScalar(CASE v.ty = "BOOLEAN" -> "boolean"
             [] v.ty = "NULL" -> "null"
             [] v.ty = "NUMBER" -> "number"
             [] OTHER -> "string",
           v.value)

\* String(jv._unwrap()): a scalar prints itself, an array of JsonValue
\* objects prints each as [object Object], a Map prints as [object Map]
StringOfUnwrap(v) ==
  CASE v.ty = "ARRAY" -> join([i \in 1..Len(v.arr) |-> "[object Object]"], ",")
    [] v.ty = "OBJECT" -> "[object Map]"
    [] OTHER -> v.value

\* ---------------------------------------------------------------- Either

NoErr == [name |-> "", message |-> ""]

NoJson == JsonValue("", "NONE", <<>>, <<>>)

\* Either.pure / Either.fail as toJsonValue uses them (a string on the left)
pure(v) == [tag |-> "Right", val |-> v, err |-> NoErr]

fail(msg) == [tag |-> "Left", val |-> NoJson, err |-> [name |-> "string", message |-> msg]]

parseOk(x) == [tag |-> "Right", val |-> x, err |-> NoErr]

failParse(msg) ==
  [tag |-> "Left", val |-> undefined, err |-> [name |-> "JsonParseError", message |-> msg]]

\* throw new Error(msg)
throwError(msg) ==
  [tag |-> "Throw", val |-> undefined, err |-> [name |-> "Error", message |-> msg]]

\* ----------------------------------------------------------- toJsonValue

RECURSIVE toJsonValue(_)
RECURSIVE toJsonArrayLoop(_, _, _)
RECURSIVE toJsonObjectLoop(_, _, _)

\* the loop of lines 143-149, from index i (1-based) with res built so far
toJsonArrayLoop(x, i, res) ==
  IF i > Len(x.items) THEN pure(res)
  ELSE LET ijson == toJsonValue(x.items[i])
       IN IF ijson.tag = "Left" THEN ijson
          ELSE toJsonArrayLoop(x, i + 1, JsonArraySet(res, ijson.val))

\* the loop of lines 155-161
toJsonObjectLoop(x, i, res) ==
  IF i > Len(x.keys) THEN pure(res)
  ELSE LET kjson == toJsonValue(x.items[i])
       IN IF kjson.tag = "Left" THEN kjson
          ELSE toJsonObjectLoop(x, i + 1, JsonObjectSet(res, x.keys[i], kjson.val))

toJsonValue(x) ==
  IF x.kind = "string" THEN pure(JsonString(x.value))
  ELSE IF x.kind = "boolean" THEN pure(JsonBoolean(x.value))
  ELSE IF x.kind = "number" THEN pure(JsonNumber(x.value))
  ELSE IF x.kind = "null" THEN pure(JsonNull)
  ELSE IF x.kind = "array" THEN toJsonArrayLoop(x, 1, JsonArray(<<>>))
  ELSE IF x.kind = "function" THEN fail("functions not supported by JSON")
  ELSE IF x.kind /= "undefined" THEN toJsonObjectLoop(x, 1, JsonObject(<<>>, <<>>))
  ELSE fail("could not load JSON value: " \o x.value)

\* parse(text): text is held as the value JSON.parse gives for it
parse(t) == toJsonValue(t)

\* ------------------------------------------------------------------- PTy

PTy(id, args) == [id |-> id, args |-> args]

Boolean == PTy("Boolean", <<>>)

Number == PTy("Number", <<>>)

String == PTy("String", <<>>)

null == PTy("null", <<>>)

Array == PTy("Array", <<>>)

Object == PTy("Object", <<>>)

AnyTy == PTy("AnyTy", <<>>)

\* the classes of the tests (Basic, Basic2, Empty) and one of two fields
Basic == PTy("Basic", <<>>)

Basic2 == PTy("Basic2", <<>>)

Empty == PTy("Empty", <<>>)

Pair == PTy("Pair", <<>>)

\* a class whose schema refers to itself, and two whose schemas refer to
\* each other
Node == PTy("Node", <<>>)

Ping == PTy("Ping", <<>>)

Pong == PTy("Pong", <<>>)

\* the array literal [c, t], as in [Array, Boolean]
TupleTy(c, t) == PTy(c.id, <<t>>)

\* cls instanceof Array
IsArrayLiteral(c) == c.args /= <<>>

\* String(cls) of a class, or of an array literal of classes
RECURSIVE StringOfPTy(_)
StringOfPTy(c) ==
  IF IsArrayLiteral(c)
    THEN join(<<"class " \o c.id>> \o [i \in 1..Len(c.args) |-> StringOfPTy(c.args[i])], ",")
    ELSE "class " \o c.id

\* ------------------------------------------------------------ JsonSchema

\* new JsonSchema(description, parser): the parser objectSchema builds is the
\* closure over ks (fields and their tys, in declaration order) and onRes
\* (the class whose instance it assembles)
JsonSchema(description, fields, tys, cons) ==
  [bound |-> TRUE, description |-> description, fields |-> fields,
   tys |-> tys, cons |-> cons]

\* what Map.get gives for a key that is not bound
NoSchema ==
  [bound |-> FALSE, description |-> "", fields |-> <<>>, tys |-> <<>>, cons |-> ""]

getDescription(schema) == schema.description

basicSchema == JsonSchema("Basic", <<"p">>, <<Boolean>>, "Basic")

basic2Schema == JsonSchema("Basic2", <<"p">>, <<Basic>>, "Basic2")

emptySchema == JsonSchema("Empty", <<>>, <<>>, "Empty")

pairSchema == JsonSchema("Pair", <<"p", "q">>, <<Boolean, Number>>, "Pair")

nodeSchema == JsonSchema("Node", <<"p">>, <<Node>>, "Node")

pingSchema == JsonSchema("Ping", <<"p">>, <<Pong>>, "Ping")

pongSchema == JsonSchema("Pong", <<"p">>, <<Ping>>, "Pong")

\* the identities a registry may bind
Identities ==
  {"Boolean", "Number", "String", "null", "Array", "Object", "AnyTy",
   "Basic", "Basic2", "Empty", "Pair", "Node", "Ping", "Pong"}

\* new Map()
emptySchemas == [id \in Identities |-> NoSchema]

\* Map.set(cls, schema)
addSchema(m, c, schema) == [m EXCEPT ![c.id] = schema]

\* schemasGet that never looks a built-in identity up
schemasGetCustomOnly(m, c) ==
  IF IsArrayLiteral(c)
       \/ c.id \in {"Boolean", "Number", "String", "null", "Array", "Object", "AnyTy"}
    THEN NoSchema
    ELSE m[c.id]

\* Map.get(cls): keys are compared by identity, so an array literal written
\* at the call is never a key of the map
schemasGet(m, c) == IF IsArrayLiteral(c) THEN NoSchema ELSE m[c.id]

\* the onRes callback of a schema: the instance of its class built from the
\* Map of decoded fields
onRes(schema, res) == JsValue(schema.cons, "", res.keys, res.items)

\* Map.set on the Map of decoded fields
MapSet(m, k, v) ==
  IF \E i \in 1..Len(m.keys) : m.keys[i] = k
    THEN JsValue(m.kind, "", m.keys,
           [i \in 1..Len(m.items) |-> IF m.keys[i] = k THEN v ELSE m.items[i]])
    ELSE JsValue(m.kind, "", Append(m.keys, k), Append(m.items, v))

\* ---------------------------------------------------------------- loadAs

RECURSIVE loadAs(_, _, _)
RECURSIVE onObjectLoop(_, _, _, _, _, _, _, _)
RECURSIVE loadObjectLoop(_, _, _, _, _)
RECURSIVE loadObjectLoopNoAssign(_, _, _, _, _)

\* the end of onObject, lines 224-230
onObjectEnd(schema, unreadKeys, missedKeys, res) ==
  IF Len(unreadKeys) > 0 THEN failParse("unknown keys: " \o join(unreadKeys, ", "))
  ELSE IF Len(missedKeys) > 0 THEN failParse("missing keys: " \o join(missedKeys, ", "))
  ELSE parseOk(onRes(schema, res))

\* the nested loops of onObject, lines 210-223, at entry i of json and
\* declared field j of ks
onObjectLoop(schema, json, m, i, j, unreadKeys, missedKeys, res) ==
  IF i > Len(json.keys) THEN onObjectEnd(schema, unreadKeys, missedKeys, res)
  ELSE IF j > Len(schema.fields)
    THEN onObjectLoop(schema, json, m, i + 1, 1, unreadKeys, missedKeys, res)
  ELSE LET k == json.keys[i]
           ksk == schema.fields[j]
       IN IF ksk = k
            THEN LET v == loadAs(json.arr[i], schema.tys[j], m)
                 IN IF v.tag /= "Right" THEN v
                    ELSE onObjectLoop(schema, json, m, i, j + 1, unreadKeys,
                                      SetDelete(missedKeys, ksk), MapSet(res, k, v.val))
            ELSE onObjectLoop(schema, json, m, i, j + 1, SetAdd(unreadKeys, k),
                              missedKeys, res)

\* JsonSchema.onObject of a schema built by objectSchema
onObject(schema, json, m) ==
  onObjectLoop(schema, json, m, 1, 1, <<>>, schema.fields, JsValue("Map", "", <<>>, <<>>))

\* Either.catEithers: the first Left of the list, else the list of the values
catEithers(rs) ==
  IF \E i \in 1..Len(rs) : rs[i].tag = "Left"
    THEN rs[CHOOSE i \in 1..Len(rs) :
              rs[i].tag = "Left" /\ \A h \in 1..(i - 1) : rs[h].tag /= "Left"]
    ELSE parseOk(JsArrayOf([i \in 1..Len(rs) |-> rs[i].val]))

\* Either.catEithers(arr.map(x => loadAs(x, cls[1], schemas))): map calls
\* loadAs on every element in index order, so the first call that throws
\* ends the map
loadArray(arr, elemTy, m) ==
  LET rs == [i \in 1..Len(arr) |-> loadAs(arr[i], elemTy, m)]
  IN IF \E i \in 1..Len(rs) : rs[i].tag = "Throw"
       THEN rs[CHOOSE i \in 1..Len(rs) :
                 rs[i].tag = "Throw" /\ \A h \in 1..(i - 1) : rs[h].tag /= "Throw"]
       ELSE catEithers(rs)

\* loadObjectLoop without the assignment res[k] = r.unwrapRight()
loadObjectLoopNoAssign(o, valTy, m, i, res) ==
  IF i > Len(o.keys) THEN parseOk(res)
  ELSE LET r == loadAs(o.arr[i], valTy, m)
       IN IF r.tag /= "Right" THEN r
          ELSE loadObjectLoopNoAssign(o, valTy, m, i + 1, res)

\* the loop of lines 306-314, at entry i with res built so far
loadObjectLoop(o, valTy, m, i, res) ==
  IF i > Len(o.keys) THEN parseOk(res)
  ELSE LET r == loadAs(o.arr[i], valTy, m)
       IN IF r.tag /= "Right" THEN r
          ELSE loadObjectLoop(o, valTy, m, i + 1, MapSet(res, o.keys[i], r.val))

loadAs(v, c, m) ==
  IF schemasGet(m, c).bound
    THEN IF v.ty = "OBJECT"
           THEN onObject(schemasGet(m, c), v, m)
           ELSE throwError("expected something that matches "
                           \o getDescription(schemasGet(m, c))
                           \o " but got " \o StringOfUnwrap(v))
  ELSE IF c = Array THEN loadAs(v, TupleTy(Array, AnyTy), m)
  ELSE IF c = Object THEN loadAs(v, TupleTy(Object, AnyTy), m)
  ELSE IF c = AnyTy
    THEN IF v.ty = "ARRAY" THEN loadAs(v, TupleTy(Array, AnyTy), m)
         ELSE IF v.ty = "OBJECT" THEN loadAs(v, TupleTy(Object, AnyTy), m)
         ELSE parseOk(unwrapScalar(v))
  ELSE IF IsArrayLiteral(c) /\ c.id = "Array"
    THEN IF v.ty = "ARRAY" THEN loadArray(v.arr, c.args[1], m)
         ELSE throwError("expected an array but got a different value")
  ELSE IF IsArrayLiteral(c) /\ c.id = "Object"
    THEN IF v.ty = "OBJECT"
           THEN loadObjectLoop(v, c.args[1], m, 1, JsObjectOf(<<>>, <<>>))
           ELSE throwError("expected an object but got a different value")
  ELSE IF c = Boolean
    THEN IF v.ty = "BOOLEAN" THEN parseOk(unwrapScalar(v))
         ELSE throwError("expected a boolean but got a different value")
  ELSE IF c = null
    THEN IF v.ty = "NULL" THEN parseOk(unwrapScalar(v))
         ELSE throwError("expected null but got a different value")
  ELSE IF c = Number
    THEN IF v.ty = "NUMBER" THEN parseOk(unwrapScalar(v))
         ELSE throwError("expected a number but got a different value")
  ELSE IF c = String
    THEN IF v.ty = "STRING" THEN parseOk(unwrapScalar(v))
         ELSE throwError("expected a string but got a different value")
  ELSE throwError("NOT IMPLEMENTED: with value [object Object] on class "
                  \o StringOfPTy(c))

\* --------------------------------------------------------------- parseAs

\* the schemas argument of parseAs: a Map, or left out
SchemasArg(m) == [given |-> TRUE, map |-> m]

NoSchemasArg == [given |-> FALSE, map |-> emptySchemas]

\* lines 358-360
schemasOrDefault(arg) == IF arg.given THEN arg.map ELSE emptySchemas

\* parse(text).mapCollecting(v => loadAs(v, cls, schemas))
mapCollecting(p, c, m) ==
  IF p.tag = "Left" THEN [tag |-> "Left", val |-> undefined, err |-> p.err]
  ELSE loadAs(p.val, c, m)

\* .either(err => { throw err }, r => r)
either(r) ==
  IF r.tag = "Right" THEN [tag |-> "Return", val |-> r.val, err |-> NoErr]
  ELSE [tag |-> "Throw", val |-> undefined, err |-> r.err]

parseAs(t, c, arg) == either(mapCollecting(parse(t), c, schemasOrDefault(arg)))

\* -------------------------------------------------------- the inputs

Scalars ==
  {JsScalar("boolean", "true"), JsScalar("number", "1"),
   JsScalar("string", "test"), JsScalar("null", "null")}

Keys == {"p", "q"}

\* the key orders of an object of n entries
KeySeqs(n) ==
  {ks \in [1..n -> Keys] : \A i, j \in 1..n : i /= j => ks[i] /= ks[j]}

RECURSIVE ValuesOfSize(_)
RECURSIVE SeqsOfSize(_)

\* the sequences of values of n nodes in all
SeqsOfSize(n) ==
  IF n = 0 THEN {<<>>}
  ELSE UNION {{<<v>> \o rest : v \in ValuesOfSize(k), rest \in SeqsOfSize(n - k)} :
                k \in 1..n}

\* the values JSON.parse can give whose tree has n nodes
ValuesOfSize(n) ==
  (IF n = 1 THEN Scalars ELSE {})
    \cup {JsArrayOf(items) : items \in SeqsOfSize(n - 1)}
    \cup UNION {{JsObjectOf(ks, items) : ks \in KeySeqs(Len(items))} :
                  items \in SeqsOfSize(n - 1)}

Texts == UNION {ValuesOfSize(n) : n \in 1..MaxNodes}

Atoms ==
  {Boolean, Number, String, null, Array, Object, AnyTy, Basic, Basic2, Empty, Pair}

Specifiers ==
  Atoms \cup {TupleTy(Array, t) : t \in Atoms} \cup {TupleTy(Object, t) : t \in Atoms}
        \cup {TupleTy(Basic, Empty)}

\* the registries of the tests
basicSchemas == addSchema(emptySchemas, Basic, basicSchema)

basic2SchemaMap == addSchema(basicSchemas, Basic2, basic2Schema)

allSchemas == addSchema(addSchema(basic2SchemaMap, Empty, emptySchema), Pair, pairSchema)

\* a schema whose field specifier is not registered (tests, "unknown spec")
basic2Only == addSchema(emptySchemas, Basic2, basic2Schema)

\* registries that bind a schema under a built-in identity (README, "ability
\* to override how basic types (e.g., booleans, numbers) are parsed")
overrideBoolean == addSchema(emptySchemas, Boolean, basicSchema)

overrideAnyTy == addSchema(emptySchemas, AnyTy, emptySchema)

Registries ==
  {emptySchemas, basicSchemas, basic2SchemaMap, allSchemas, basic2Only,
   overrideBoolean, overrideAnyTy}

SchemasArgs == {NoSchemasArg} \cup {SchemasArg(m) : m \in Registries}

\* --------------------------------------------------------- the machine

NoResult == [tag |-> "None", val |-> undefined, err |-> NoErr]

\* no call of loadAs is being followed
NoCall == [v |-> NoJson, c |-> PTy("", <<>>)]

\* no registry operation was made
NoOp == [op |-> "none", ref |-> 0]

Init ==
  /\ text \in Texts
  /\ cls \in Specifiers
  /\ schemas \in SchemasArgs
  /\ jv = NoJson
  /\ result = NoResult
  /\ outcome = NoResult
  /\ pc = "ready"
  /\ call = NoCall
  /\ heap = <<>>
  /\ lastOp = NoOp

\* one call parseAs(text, cls, schemas): jv is the tree parse gave, result
\* what loadAs gave for it, outcome what the caller sees
ParseAs ==
  /\ pc = "ready"
  /\ jv' = parse(text).val
  /\ result' = mapCollecting(parse(text), cls, schemasOrDefault(schemas))
  /\ outcome' = parseAs(text, cls, schemas)
  /\ pc' = "done"
  /\ UNCHANGED <<text, cls, schemas, call, heap, lastOp>>

Next == ParseAs

Spec == Init /\ [][Next]_vars

\* ------------------------------------------ the calls loadAs makes

\* loadAs(v, c, m) called from within loadAs or onObject
Call(v, c) == [v |-> v, c |-> c]

\* the calls of loadAs that onObject makes, lines 210-218: on the value of
\* each input key that is a declared field, in input order, until one does
\* not return a Right
onObjectCalls(schema, json, m) ==
  LET declared(i) == json.keys[i] \in {schema.fields[j] : j \in 1..Len(schema.fields)}
      ty(i) == schema.tys[CHOOSE j \in 1..Len(schema.fields) :
                            schema.fields[j] = json.keys[i]]
  IN {Call(json.arr[i], ty(i)) :
        i \in {i \in 1..Len(json.keys) :
                 /\ declared(i)
                 /\ \A h \in 1..(i - 1) :
                      declared(h) => loadAs(json.arr[h], ty(h), m).tag = "Right"}}

\* Calls with loadAs(jv, cls, schemas) in place of loadAs(jv, [Array, AnyTy],
\* schemas) at line 280
CallsArrayAsItself(v, c, m) ==
  IF schemasGet(m, c).bound
    THEN IF v.ty = "OBJECT" THEN onObjectCalls(schemasGet(m, c), v, m) ELSE {}
  ELSE IF c = Array THEN {Call(v, Array)}
  ELSE IF c = Object THEN {Call(v, TupleTy(Object, AnyTy))}
  ELSE IF c = AnyTy
    THEN IF v.ty = "ARRAY" THEN {Call(v, TupleTy(Array, AnyTy))}
         ELSE IF v.ty = "OBJECT" THEN {Call(v, TupleTy(Object, AnyTy))}
         ELSE {}
  ELSE IF IsArrayLiteral(c) /\ c.id = "Array" /\ v.ty = "ARRAY"
    THEN {Call(v.arr[i], c.args[1]) :
            i \in {i \in 1..Len(v.arr) :
                     \A h \in 1..(i - 1) : loadAs(v.arr[h], c.args[1], m).tag /= "Throw"}}
  ELSE IF IsArrayLiteral(c) /\ c.id = "Object" /\ v.ty = "OBJECT"
    THEN {Call(v.arr[i], c.args[1]) :
            i \in {i \in 1..Len(v.arr) :
                     \A h \in 1..(i - 1) : loadAs(v.arr[h], c.args[1], m).tag = "Right"}}
  ELSE {}

\* the calls of loadAs that one call loadAs(v, c, m) makes, directly or
\* through onObject: lines 275, 280, 283, 287, 289, 298 (map calls it on
\* every element until one throws) and 307 (until one is not a Right)
Calls(v, c, m) ==
  IF schemasGet(m, c).bound
    THEN IF v.ty = "OBJECT" THEN onObjectCalls(schemasGet(m, c), v, m) ELSE {}
  ELSE IF c = Array THEN {Call(v, TupleTy(Array, AnyTy))}
  ELSE IF c = Object THEN {Call(v, TupleTy(Object, AnyTy))}
  ELSE IF c = AnyTy
    THEN IF v.ty = "ARRAY" THEN {Call(v, TupleTy(Array, AnyTy))}
         ELSE IF v.ty = "OBJECT" THEN {Call(v, TupleTy(Object, AnyTy))}
         ELSE {}
  ELSE IF IsArrayLiteral(c) /\ c.id = "Array" /\ v.ty = "ARRAY"
    THEN {Call(v.arr[i], c.args[1]) :
            i \in {i \in 1..Len(v.arr) :
                     \A h \in 1..(i - 1) : loadAs(v.arr[h], c.args[1], m).tag /= "Throw"}}
  ELSE IF IsArrayLiteral(c) /\ c.id = "Object" /\ v.ty = "OBJECT"
    THEN {Call(v.arr[i], c.args[1]) :
            i \in {i \in 1..Len(v.arr) :
                     \A h \in 1..(i - 1) : loadAs(v.arr[h], c.args[1], m).tag = "Right"}}
  ELSE {}

\* registries whose schemas refer to themselves and to each other
recursiveSchemas ==
  addSchema(addSchema(addSchema(emptySchemas, Node, nodeSchema), Ping, pingSchema),
            Pong, pongSchema)

CallSpecifiers ==
  {Array, Object, AnyTy, Boolean, TupleTy(Array, Object), TupleTy(Object, Array),
   Node, Ping, TupleTy(Array, Node), TupleTy(Object, Pong), Basic2}

CallSchemasArgs ==
  {NoSchemasArg, SchemasArg(recursiveSchemas), SchemasArg(basic2SchemaMap)}

InitCalls ==
  /\ text \in Texts
  /\ cls \in CallSpecifiers
  /\ schemas \in CallSchemasArgs
  /\ jv = NoJson
  /\ result = NoResult
  /\ outcome = NoResult
  /\ pc = "ready"
  /\ call = NoCall
  /\ heap = <<>>
  /\ lastOp = NoOp

\* parseAs calls loadAs on the tree parse gave (line 361)
Enter ==
  /\ pc = "ready"
  /\ jv' = parse(text).val
  /\ call' = Call(parse(text).val, cls)
  /\ pc' = "calling"
  /\ UNCHANGED <<text, cls, schemas, result, outcome, heap, lastOp>>

\* the call followed makes a call of loadAs, which is followed in its turn
Descend ==
  /\ pc = "calling"
  /\ call' \in Calls(call.v, call.c, schemasOrDefault(schemas))
  /\ UNCHANGED <<text, cls, schemas, jv, result, outcome, pc, heap, lastOp>>

\* the call followed makes no call of loadAs: it returns or throws
Return ==
  /\ pc = "calling"
  /\ Calls(call.v, call.c, schemasOrDefault(schemas)) = {}
  /\ pc' = "returned"
  /\ UNCHANGED <<text, cls, schemas, jv, result, outcome, call, heap, lastOp>>

NextCalls == Enter \/ Descend \/ Return

\* loadAs is synchronous: a call that is running goes on running
SpecCalls == InitCalls /\ [][NextCalls]_vars /\ WF_vars(NextCalls)

\* ------------------------------------- registries built while decoding

\* the registry objects created so far are heap[1], heap[2], ...; the parser
\* is bound to the first
BaseRef == 1

MaxMaps == 2

\* the value tree and the registry as a call loadAs(v, c, m) leaves them.
\* loadAs and onObject assign to their locals only (unreadKeys at 206 and
\* 220, missedKeys at 207-208 and 215, res at 209, 218, 306 and 312); jv is
\* read through unwrap, asMap and get, schemas through get (272)
afterLoadAsConsuming(v, c, m) ==
  [jv |-> IF schemasGet(m, c).bound /\ v.ty = "OBJECT"
            THEN JsonObject(<<>>, <<>>) ELSE v,
   schemas |-> m]

afterLoadAs(v, c, m) == [jv |-> v, schemas |-> m]

SchemaTexts ==
  {JsScalar("number", "1"),
   JsObjectOf(<<>>, <<>>),
   JsObjectOf(<<"p">>, <<JsScalar("boolean", "true")>>),
   JsObjectOf(<<"p">>, <<JsScalar("number", "1")>>),
   JsObjectOf(<<"p">>, <<JsObjectOf(<<"p">>, <<JsScalar("boolean", "true")>>)>>),
   JsObjectOf(<<"q">>, <<JsScalar("boolean", "true")>>),
   JsArrayOf(<<JsObjectOf(<<"p">>, <<JsScalar("boolean", "true")>>)>>)}

SchemaSpecifiers == {Basic, Basic2, TupleTy(Array, Basic), AnyTy}

\* the entries the tests add (lines 135, 160, 161)
SchemaEntries ==
  {[c |-> Basic, schema |-> basicSchema], [c |-> Basic2, schema |-> basic2Schema]}

InitSchemas ==
  /\ text \in SchemaTexts
  /\ cls \in SchemaSpecifiers
  /\ schemas = NoSchemasArg
  /\ jv = NoJson
  /\ result = NoResult
  /\ outcome = NoResult
  /\ pc = "ready"
  /\ call = NoCall
  /\ heap = <<emptySchemas>>
  /\ lastOp = NoOp

\* Schemas.emptySchemas() makes a registry of its own (tests, 133 and 159)
NewSchemas ==
  /\ Len(heap) < MaxMaps
  /\ heap' = Append(heap, emptySchemas)
  /\ lastOp' = [op |-> "new", ref |-> Len(heap) + 1]
  /\ UNCHANGED <<text, cls, schemas, jv, result, outcome, pc, call>>

\* r.addSchema(c, schema) binds c in the registry it is called on: the tests
\* call it for that effect and drop what it returns (133-137)
AddSchema ==
  \E r \in 1..Len(heap), e \in SchemaEntries :
    /\ heap' = [heap EXCEPT ![r] = addSchema(heap[r], e.c, e.schema)]
    /\ lastOp' = [op |-> "add", ref |-> r]
    /\ UNCHANGED <<text, cls, schemas, jv, result, outcome, pc, call>>

\* parse(text), the first step of parseAs (line 361)
Parse ==
  /\ pc = "ready"
  /\ jv' = parse(text).val
  /\ pc' = "parsed"
  /\ lastOp' = [op |-> "parse", ref |-> 0]
  /\ UNCHANGED <<text, cls, schemas, result, outcome, call, heap>>

\* loadAs on the tree, with the registry the parser is bound to
Load ==
  /\ pc = "parsed"
  /\ schemas' = SchemasArg(heap[BaseRef])
  /\ result' = loadAs(jv, cls, heap[BaseRef])
  /\ outcome' = either(loadAs(jv, cls, heap[BaseRef]))
  /\ jv' = afterLoadAs(jv, cls, heap[BaseRef]).jv
  /\ heap' = [heap EXCEPT ![BaseRef] = afterLoadAs(jv, cls, heap[BaseRef]).schemas]
  /\ pc' = "done"
  /\ lastOp' = [op |-> "load", ref |-> BaseRef]
  /\ UNCHANGED <<text, cls, call>>

NextSchemas == NewSchemas \/ AddSchema \/ Parse \/ Load

SpecSchemas == InitSchemas /\ [][NextSchemas]_vars

\* ------------------------------------------------- vocabulary of the claims

\* the registry the call decodes with
registry == schemasOrDefault(schemas)

\* the schema the registry binds to the specifier of the call, if any
schemaOf == schemasGet(registry, cls)

Done == pc = "done"

\* s occurs in str
Contains(str, s) ==
  \E i \in 1..(Len(str) - Len(s) + 1) : SubSeq(str, i, i + Len(s) - 1) = s

\* the name of a value's tag, as diagnostics give it
TagName(v) ==
  CASE v.ty = "ARRAY" -> "array"
    [] v.ty = "BOOLEAN" -> "boolean"
    [] v.ty = "NULL" -> "null"
    [] v.ty = "NUMBER" -> "number"
    [] v.ty = "OBJECT" -> "object"
    [] OTHER -> "string"

\* the tag a primitive specifier asks for
PrimitiveTag(c) ==
  CASE c = Boolean -> "BOOLEAN"
    [] c = Number -> "NUMBER"
    [] c = String -> "STRING"
    [] OTHER -> "NULL"

\* the name of a primitive specifier, as diagnostics give it
PrimitiveName(c) ==
  CASE c = Boolean -> "boolean"
    [] c = Number -> "number"
    [] c = String -> "string"
    [] OTHER -> "null"

Primitives == {Boolean, Number, String, null}

Customs == {Basic, Basic2, Empty, Pair, TupleTy(Basic, Empty)}

KeySet(keys) == {keys[i] : i \in 1..Len(keys)}

\* the entry under key k of parallel sequences keys and items
At(keys, items, k) == items[CHOOSE i \in 1..Len(keys) : keys[i] = k]

\* r is an error value (a Left) of a type mismatch: it names what was
\* expected and the tag of what was seen
IsTypeError(r, expected, actual) ==
  /\ r.tag = "Left"
  /\ Contains(r.err.message, expected)
  /\ Contains(r.err.message, actual)

\* r is the error value of missing keys, listing keys
IsMissingKeys(r, keys) ==
  r.tag = "Left" /\ r.err.message = "missing keys: " \o join(keys, ", ")

\* r is an error value of unknown keys
IsUnknownKeysError(r) == r.tag = "Left" /\ Contains(r.err.message, "unknown keys")

\* r is the error value of unknown keys, listing keys
IsUnknownKeys(r, keys) ==
  r.tag = "Left" /\ r.err.message = "unknown keys: " \o join(keys, ", ")

\* r is an error value of an unresolved specifier, naming c
IsUnknownSpec(r, c) == r.tag = "Left" /\ Contains(r.err.message, StringOfPTy(c))

\* the native value n has the structure of the tree v
RECURSIVE SameTree(_, _)
SameTree(n, v) ==
  CASE v.ty = "ARRAY" ->
         /\ n.kind = "array"
         /\ Len(n.items) = Len(v.arr)
         /\ \A i \in 1..Len(v.arr) : SameTree(n.items[i], v.arr[i])
    [] v.ty = "OBJECT" ->
         /\ n.kind = "object"
         /\ Len(n.keys) = Len(v.keys)
         /\ KeySet(n.keys) = KeySet(v.keys)
         /\ \A k \in KeySet(v.keys) :
              SameTree(At(n.keys, n.items, k), At(v.keys, v.arr, k))
    [] OTHER ->
         n.kind = TagName(v) /\ n.value = v.value /\ n.keys = <<>> /\ n.items = <<>>

\* the result of decoding element / entry i of the input against t
ChildResult(i, t) == loadAs(jv.arr[i], t, registry)

\* the least index of a child of the input that does not decode against t
FirstFailing(t) ==
  CHOOSE i \in 1..Len(jv.arr) :
    /\ ChildResult(i, t).tag /= "Right"
    /\ \A h \in 1..(i - 1) : ChildResult(h, t).tag = "Right"

\* the declared fields of s the input object lacks, in declared order
AbsentFields(s) == SelectSeq(s.fields, LAMBDA k : k \notin KeySet(jv.keys))

\* the keys of the input object s does not declare, in input order
UndeclaredKeys(s) == SelectSeq(jv.keys, LAMBDA k : k \notin KeySet(s.fields))

\* the input is an object decoded against a registered object schema
OnSchemaObject == Done /\ schemaOf.bound /\ jv.ty = "OBJECT"

\* ------------------------------------------------------------ the claims

\* C1: for every object schema (of any number of declared fields) and every
\* input object whose key set is exactly the declared field set and whose
\* every value matches its field's specifier, decoding succeeds and returns
\* what the assemble callback gives for the mapping from each declared field
\* to its decoded value.
DecodesExactKeys ==
  (/\ OnSchemaObject
   /\ KeySet(jv.keys) = KeySet(schemaOf.fields)
   /\ \A j \in 1..Len(schemaOf.fields) :
        loadAs(At(jv.keys, jv.arr, schemaOf.fields[j]), schemaOf.tys[j], registry).tag
          = "Right")
  => /\ result.tag = "Right"
     /\ result.val.kind = schemaOf.cons
     /\ Len(result.val.keys) = Len(schemaOf.fields)
     /\ KeySet(result.val.keys) = KeySet(schemaOf.fields)
     /\ \A j \in 1..Len(schemaOf.fields) :
          At(result.val.keys, result.val.items, schemaOf.fields[j])
            = loadAs(At(jv.keys, jv.arr, schemaOf.fields[j]), schemaOf.tys[j],
                     registry).val

\* C2: for every object schema and every input object that lacks at least one
\* declared field, decoding fails with the missing-keys error that lists
\* exactly the absent declared fields, all of them, in declared order.
MissingKeysListed ==
  (OnSchemaObject /\ AbsentFields(schemaOf) /= <<>>)
  => IsMissingKeys(result, AbsentFields(schemaOf))

\* C3: for every object schema (of no, one or more declared fields) and every
\* input object that has every declared field, decoding fails with an
\* unknown-keys error exactly when the input has an undeclared key: with one,
\* the error lists exactly the undeclared keys, in input order, and no
\* declared key; with none, and every field value matching its specifier,
\* there is no unknown-keys error.
UnknownKeysIff ==
  (OnSchemaObject /\ AbsentFields(schemaOf) = <<>>)
  => IF UndeclaredKeys(schemaOf) /= <<>>
       THEN IsUnknownKeys(result, UndeclaredKeys(schemaOf))
       ELSE (\A j \in 1..Len(schemaOf.fields) :
               loadAs(At(jv.keys, jv.arr, schemaOf.fields[j]), schemaOf.tys[j],
                      registry).tag = "Right")
            => ~IsUnknownKeysError(result)

\* C4: loadAs never raises an exception: every decode failure is returned as
\* an error value (a Left); only the entry point raises.
LoadAsNeverThrows == Done => result.tag \in {"Right", "Left"}

\* C5: against a primitive specifier (Boolean, Number, String, null) decoding
\* succeeds exactly when the value's tag is the specifier's, and returns the
\* unwrapped scalar; on any other tag it fails with a type error whose
\* expected is the primitive's name and whose actual is the value's tag.
PrimitiveExactTag ==
  (Done /\ cls \in Primitives /\ ~schemaOf.bound)
  => IF jv.ty = PrimitiveTag(cls)
       THEN result = parseOk(unwrapScalar(jv))
       ELSE IsTypeError(result, PrimitiveName(cls), TagName(jv))

\* C6: with an empty registry, decoding any value against AnyTy never fails
\* and returns the native value of the structure of the input tree: scalars
\* unwrapped unchanged, arrays of the same length and order, objects of the
\* same key set, at every depth.
AnyTyStructural ==
  (Done /\ cls = AnyTy /\ registry = emptySchemas)
  => result.tag = "Right" /\ SameTree(result.val, jv)

\* C6, witness: an object holding a non-empty array was decoded against AnyTy
\* with an empty registry.
AnyTyNestedDecoded ==
  /\ Done /\ cls = AnyTy /\ registry = emptySchemas
  /\ jv.ty = "OBJECT"
  /\ \E i \in 1..Len(jv.arr) : jv.arr[i].ty = "ARRAY" /\ Len(jv.arr[i].arr) = 1
  /\ result.tag = "Right"

\* C7: against [Array, T], a value that is not an array fails with a type
\* error (expected array); an array decodes exactly when every element
\* matches T, to the array of the decoded elements in order, and otherwise
\* the error is that of the failing element of least index.
ArrayOfElementwise ==
  (Done /\ IsArrayLiteral(cls) /\ cls.id = "Array")
  => IF jv.ty /= "ARRAY"
       THEN IsTypeError(result, "array", "")
       ELSE IF \A i \in 1..Len(jv.arr) : ChildResult(i, cls.args[1]).tag = "Right"
         THEN result = parseOk(JsArrayOf(
                [i \in 1..Len(jv.arr) |-> ChildResult(i, cls.args[1]).val]))
         ELSE result = ChildResult(FirstFailing(cls.args[1]), cls.args[1])

\* C8: against [Object, T], a value that is not an object fails with a type
\* error (expected object); an object decodes exactly when every entry's
\* value matches T, to the object of the same keys in the same order, each
\* with its decoded value, and otherwise the error is that of the first
\* failing entry in input key order.
ObjectOfEntrywise ==
  (Done /\ IsArrayLiteral(cls) /\ cls.id = "Object")
  => IF jv.ty /= "OBJECT"
       THEN IsTypeError(result, "object", "")
       ELSE IF \A i \in 1..Len(jv.arr) : ChildResult(i, cls.args[1]).tag = "Right"
         THEN result = parseOk(JsObjectOf(jv.keys,
                [i \in 1..Len(jv.arr) |-> ChildResult(i, cls.args[1]).val]))
         ELSE result = ChildResult(FirstFailing(cls.args[1]), cls.args[1])

\* C9: against a custom specifier the registry does not bind, decoding fails
\* for every value with an unknown-specifier error naming that specifier;
\* and so it does, naming the nested specifier, when the unbound specifier
\* is the element specifier of [Array, T] and the array has an element, or a
\* field specifier of a registered object schema and the field is present.
UnknownSpecNamed ==
  /\ (Done /\ cls \in Customs /\ ~schemaOf.bound) => IsUnknownSpec(result, cls)
  /\ (/\ Done /\ IsArrayLiteral(cls) /\ cls.id = "Array"
      /\ cls.args[1] \in Customs /\ ~schemasGet(registry, cls.args[1]).bound
      /\ jv.ty = "ARRAY" /\ Len(jv.arr) > 0)
     => IsUnknownSpec(result, cls.args[1])
  /\ (/\ OnSchemaObject
      /\ KeySet(jv.keys) = KeySet(schemaOf.fields)
      /\ \E j \in 1..Len(schemaOf.fields) :
           ~schemasGet(registry, schemaOf.tys[j]).bound /\ schemaOf.tys[j] \in Customs)
     => \E j \in 1..Len(schemaOf.fields) : IsUnknownSpec(result, schemaOf.tys[j])

\* C10: against a custom specifier registered with an object schema, every
\* value that is not an object (number, string, boolean, null, array) fails
\* with a type error whose expected is the schema's description and whose
\* actual is the value's tag.
SchemaOnNonObject ==
  (Done /\ schemaOf.bound /\ jv.ty /= "OBJECT")
  => IsTypeError(result, getDescription(schemaOf), TagName(jv))

BuiltinAtoms == {Boolean, Number, String, null, Array, Object, AnyTy}

\* C11 as stated: built-in specifier identities are never looked up in the
\* registry: decoding against a built-in specifier gives the same outcome
\* with a registry that binds a schema under that identity as with the empty
\* registry.
BuiltinsNeverLookedUp ==
  (Done /\ cls \in BuiltinAtoms) => result = loadAs(jv, cls, emptySchemas)

\* C11, amended: the registry is looked up first, for built-in identities
\* too.  A schema bound under the built-in identity of the specifier
\* overrides the native handling: an object is decoded by that schema and any
\* other value is refused, naming the schema.  A built-in specifier is
\* decoded as with the empty registry when the registry binds neither its
\* identity nor AnyTy (against which Array, Object and AnyTy decode the
\* children of a container).
BuiltinsOverridable ==
  (Done /\ cls \in BuiltinAtoms)
  => IF registry[cls.id].bound
       THEN result = (IF jv.ty = "OBJECT"
                        THEN onObject(registry[cls.id], jv, registry)
                        ELSE throwError("expected something that matches "
                                        \o registry[cls.id].description
                                        \o " but got " \o StringOfUnwrap(jv)))
       ELSE ~registry["AnyTy"].bound => result = loadAs(jv, cls, emptySchemas)

\* C11, witness: a boolean was decoded against Boolean with a registry that
\* binds a schema under Boolean, and the schema refused it.
BooleanOverridden ==
  /\ Done /\ cls = Boolean /\ registry["Boolean"].bound
  /\ jv.ty = "BOOLEAN"
  /\ result.tag = "Throw"

\* the result of decoding the value of declared field j of s, present in the
\* input object, against its specifier
FieldResult(s, j) == loadAs(At(jv.keys, jv.arr, s.fields[j]), s.tys[j], registry)

\* declared field j of s is present in the input and its value does not
\* match its specifier
FieldFails(s, j) ==
  s.fields[j] \in KeySet(jv.keys) /\ FieldResult(s, j).tag /= "Right"

\* C13: for an object schema, when the input object both lacks a declared
\* field and has an undeclared key, decoding fails with the missing-keys
\* error: the missing-field check comes first.
MissingBeforeUnknown ==
  (OnSchemaObject /\ AbsentFields(schemaOf) /= <<>> /\ UndeclaredKeys(schemaOf) /= <<>>)
  => IsMissingKeys(result, AbsentFields(schemaOf))

\* C14: for an object schema, field values are decoded only after both
\* key-shape checks pass: when the input object lacks a declared field or has
\* an undeclared key, the outcome is the missing-keys or the unknown-keys
\* error of this object, even if a present declared field's value does not
\* match its specifier.
KeyShapeBeforeValues ==
  (/\ OnSchemaObject
   /\ AbsentFields(schemaOf) /= <<>> \/ UndeclaredKeys(schemaOf) /= <<>>
   /\ \E j \in 1..Len(schemaOf.fields) : FieldFails(schemaOf, j))
  => \/ AbsentFields(schemaOf) /= <<>> /\ IsMissingKeys(result, AbsentFields(schemaOf))
     \/ UndeclaredKeys(schemaOf) /= <<>>
          /\ IsUnknownKeys(result, UndeclaredKeys(schemaOf))

\* C15: for an object schema whose key-shape checks pass, fields are decoded
\* in declared order, not input order: when field values fail to match, the
\* outcome is the error of the first failing field in declared order, of its
\* own kind, and assemble is not invoked.
DeclaredOrderFailFast ==
  (/\ OnSchemaObject
   /\ KeySet(jv.keys) = KeySet(schemaOf.fields)
   /\ \E j \in 1..Len(schemaOf.fields) : FieldFails(schemaOf, j))
  => LET first == CHOOSE j \in 1..Len(schemaOf.fields) :
                    /\ FieldFails(schemaOf, j)
                    /\ \A h \in 1..(j - 1) : ~FieldFails(schemaOf, h)
     IN result = FieldResult(schemaOf, first)

\* the values strictly inside the tree v
RECURSIVE SubValues(_)
SubValues(v) ==
  {v.arr[i] : i \in 1..Len(v.arr)} \cup UNION {SubValues(v.arr[i]) : i \in 1..Len(v.arr)}

\* C16: every call of loadAs terminates, for every value, specifier and
\* registry, registries whose schemas refer to themselves or to each other
\* included: every call it makes is on a value strictly inside its own,
\* except the desugaring calls (of bare Array and Object, and of AnyTy on a
\* container), which keep the value and every call of which is on a value
\* strictly inside it; and every chain of calls comes to its end.
CallsTerminate ==
  /\ [][(pc = "calling" /\ pc' = "calling")
        => \/ call'.v \in SubValues(call.v)
           \/ /\ call'.v = call.v
              /\ call.c \in {Array, Object, AnyTy}
              /\ call'.c \in {TupleTy(Array, AnyTy), TupleTy(Object, AnyTy)}
              /\ \A n \in Calls(call'.v, call'.c, registry) :
                   n.v \in SubValues(call'.v)]_vars
  /\ <>(pc = "returned")

\* C16, witness: a chain of calls through a schema that refers to itself went
\* two levels into the input and came to its end.
RecursiveSchemaReturned ==
  /\ pc = "returned" /\ cls = Node /\ call.c = Node
  /\ \E i \in 1..Len(jv.arr) : call.v \in {jv.arr[i].arr[h] : h \in 1..Len(jv.arr[i].arr)}

====
